---- MODULE Spec2Model ----
(***************************************************************************)
(* Dining philosophers, examples/chandy_misra.rs: a ring of philosophers   *)
(* exchanging Request / Delivery messages over mpsc channels, forks marked *)
(* Dirty or Clean; examples/n_minus_one.rs: fork mutexes behind a          *)
(* semaphore; examples/arbitrator.rs: forks handed out by a waiter.        *)
(***************************************************************************)
EXTENDS Integers, Sequences, FiniteSets, TLC

\* names.len() in main: the ring size
NumPhils == 5

\* ring size of the reduced ring on which all behaviours, and the fair ones, are explored
RingSize == 4

\* ring size of the ring whose channels also receive Requests from outside the protocol
SmallRing == 3

\* number of calls made from outside main's own sequence of calls: Requests put
\* into the channels, setup_fork calls
MaxInjected == 1

\* number of meals of a counted run: it stops when the last of them has started
MaxMeals == 5

VARIABLES
    num_phils,      \* main: phils.len()
    setup_i,        \* main: index i of the topology loop (NumPhils when it is over)
    spawned,        \* main: the philosopher threads have been spawned
    aborted,        \* the process panicked (an assert! failed)
    neighbours,     \* Philosopher.neighbours : phil -> (phil id -> channel of that phil)
    forks,          \* Philosopher.forks      : phil -> (fork id -> ForkStorage)
    request_queue,  \* Philosopher.request_queue : phil -> Seq(<<who, fork_id>>)
    channel,        \* the mpsc channel read by Philosopher.receiver : phil -> Seq(ForkMessage)
    pc,             \* position of each philosopher thread
    meals,          \* number of "is eating" lines printed by each philosopher
    counting,       \* whether the run is bounded by the meal counters
    injected,       \* number of calls made from outside main's own sequence of calls
    since,          \* per philosopher, what happened since its last meal began (empty: not recorded)
    sem,            \* n_minus_one: number of semaphore guards alive
    table,          \* n_minus_one: Table.forks, fork -> the thread that holds its mutex
    waiter          \* arbitrator: Table.waiter, fork -> taken

vars == <<num_phils, setup_i, spawned, aborted, neighbours, forks, request_queue, channel, pc, meals, counting, injected,
          since, sem, table, waiter>>

Phils == 0 .. (num_phils - 1)

----------------------------------------------------------------------------
\* Fork, ForkStorage, ForkMessage

\* Option<T>: None is the empty sequence, Some(x) is <<x>>
None == << >>
Some(x) == << x >>

new_dirty(id) == [id |-> id, state |-> "Dirty"]

\* mutation: the comparison is made with the wrong variant
Fork_is_dirty_inverted(f) == f.state = "Clean"

Fork_is_dirty(f) == f.state = "Dirty"

\* mutation: the fork is sent as it is
Fork_clean_noop(f) == f

Fork_clean(f) == [f EXCEPT !.state = "Clean"]

\* mutation: the state of the fork is left as it is
Fork_dirty_noop(f) == f

Fork_dirty(f) == [f EXCEPT !.state = "Dirty"]

ForkStorage_new(fork) == [requested |-> FALSE, fork |-> fork]

is_some(s) == s.fork # None

\* mutation: any fork that is present counts as dirty
is_dirty_any(s) == s.fork # None

is_dirty(s) == IF s.fork = None THEN FALSE ELSE Fork_is_dirty(s.fork[1])

\* mutation: the fork is copied out of the slot, not moved
take_keep(s) == s

\* Option::take on the slot's fork: the slot keeps its requested flag
take(s) == [s EXCEPT !.fork = None]

\* mutation: the forks are not marked after the meal
dirty_noop(s) == s

dirty(s) == [s EXCEPT !.fork = Some(Fork_dirty(s.fork[1]))]

\* mutation: the test of the requested flag lacks its negation
needs_requesting_inverted(s) == s.fork = None /\ s.requested

needs_requesting(s) == s.fork = None /\ ~s.requested

\* mutation: the slot is not marked as requested
requested_noop(s) == s

requested(s) == [s EXCEPT !.requested = TRUE]

Request(by, fork_id) == [kind |-> "Request", by |-> by, fork_id |-> fork_id]

Delivery(fork) == [kind |-> "Delivery", fork |-> fork]

\* BTreeMap / HashMap insert
MapInsert(m, k, v) == [x \in (DOMAIN m) \cup {k} |-> IF x = k THEN v ELSE m[x]]

EmptyMap == [x \in {} |-> 0]

RECURSIVE SumTo(_, _)
SumTo(f, n) == IF n = 0 THEN 0 ELSE f[n - 1] + SumTo(f, n - 1)

SetMax(S) == CHOOSE x \in S : \A y \in S : y <= x

SetMin(S) == CHOOSE x \in S : \A y \in S : x <= y

\* mutation: the fork goes to the higher-numbered endpoint
Max2(a, b) == IF a <= b THEN b ELSE a

\* mutation: the fork goes to philosopher i itself
Second2(a, b) == b

Min2(a, b) == IF a <= b THEN a ELSE b

\* the record of what happened since a philosopher's last meal began: not kept, and new
NoRecord == << >>

FreshRecord == [ate |-> FALSE, gave |-> FALSE, nb |-> FALSE]

----------------------------------------------------------------------------
\* main: construction of the philosophers, the topology loop, the spawn loop

\* the state main is in when it enters the topology loop, for `names` of length n
Start(n, count) ==
    /\ num_phils = n
    /\ counting = count
    /\ setup_i = 0
    /\ spawned = FALSE
    /\ aborted = FALSE
    /\ neighbours = [p \in Phils |-> EmptyMap]
    /\ forks = [p \in Phils |-> EmptyMap]
    /\ request_queue = [p \in Phils |-> << >>]
    /\ channel = [p \in Phils |-> << >>]
    /\ pc = [p \in Phils |-> "new"]
    /\ meals = [p \in Phils |-> 0]
    /\ injected = 0

\* the other two programs are not running
Idle == sem = 0 /\ table = << >> /\ waiter = << >>

Init == Start(NumPhils, FALSE) /\ since = NoRecord /\ Idle

setup_sender(nb, p, phil_id, sender) ==
    [nb EXCEPT ![p] = MapInsert(nb[p], phil_id, sender)]

\* the assert! of setup_fork
setup_fork_assert(fs, p) == Cardinality(DOMAIN fs[p]) <= 2

setup_fork(fs, p, neighbour, fork) ==
    [fs EXCEPT ![p] = MapInsert(fs[p], neighbour, ForkStorage_new(fork))]

\* one iteration of `for (i, sender) in senders.iter().enumerate()`
Topology ==
    /\ ~aborted
    /\ setup_i < num_phils
    /\ LET i == setup_i
           phil_max_idx == num_phils - 1
           neighbour_left == IF i = 0 THEN phil_max_idx ELSE i - 1
           neighbour_right == IF i = phil_max_idx THEN 0 ELSE i + 1
           nb1 == setup_sender(neighbours, neighbour_left, i, i)
           nb2 == setup_sender(nb1, neighbour_right, i, i)
           gets_fork == Min2(neighbour_left, i)
           fs1 == setup_fork(forks, i, i, None)
           fs2 == setup_fork(fs1, i, neighbour_right, None)
           fs3 == setup_fork(fs2, gets_fork, i, Some(new_dirty(i)))
           ok == /\ setup_fork_assert(forks, i)
                 /\ setup_fork_assert(fs1, i)
                 /\ setup_fork_assert(fs2, gets_fork)
       IN  /\ neighbours' = nb2
           /\ IF ok
                 THEN /\ forks' = fs3
                      /\ setup_i' = i + 1
                      /\ aborted' = FALSE
                 ELSE /\ forks' = forks
                      /\ setup_i' = i
                      /\ aborted' = TRUE
    /\ UNCHANGED <<num_phils, spawned, request_queue, channel, pc, meals, counting, injected, since, sem, table, waiter>>

\* `for mut p in phils { handles.push(thread::spawn(move || p.run())) }`
Spawn ==
    /\ ~aborted
    /\ setup_i = num_phils
    /\ ~spawned
    /\ pc' = [p \in Phils |-> "eat"]
    /\ spawned' = TRUE
    /\ UNCHANGED <<num_phils, setup_i, aborted, neighbours, forks, request_queue, channel, meals, counting, injected, since, sem, table, waiter>>

----------------------------------------------------------------------------
\* The record of what happened since a philosopher's last meal began: whether it
\* has eaten at all, whether it has sent a fork away, whether a ring neighbour
\* has finished a meal. The record is kept only where it starts non-empty.

\* p prints "is eating"
note_meal(h, p) ==
    IF p \in DOMAIN h THEN [h EXCEPT ![p] = [ate |-> TRUE, gave |-> FALSE, nb |-> FALSE]] ELSE h

\* p sends one of its forks in a Delivery
note_gave(h, p) ==
    IF p \in DOMAIN h THEN [h EXCEPT ![p].gave = TRUE] ELSE h

\* q prints "is done eating": noted for the philosophers q holds a sender of
note_done(h, q) ==
    [p \in DOMAIN h |-> IF p \in DOMAIN neighbours[q] THEN [h[p] EXCEPT !.nb = TRUE] ELSE h[p]]

----------------------------------------------------------------------------
\* Philosopher

neighbour_left(p) ==
    IF p = 0 THEN SetMax(DOMAIN neighbours[p]) ELSE p - 1

\* mutation: the right neighbour is taken to be the left one
neighbour_right_is_left(p) == neighbour_left(p)

neighbour_right(p) ==
    CHOOSE x \in DOMAIN neighbours[p] : x # neighbour_left(p)

\* mpsc::Sender::send on the sender stored under key `to` of p's neighbours
send(ch, p, to, msg) ==
    LET dest == neighbours[p][to]
    IN  [ch EXCEPT ![dest] = Append(ch[dest], msg)]

\* a failed unwrap() or a map index with a missing key: the thread panics
Panic(p) ==
    /\ pc' = [pc EXCEPT ![p] = "panicked"]
    /\ UNCHANGED <<forks, request_queue, channel, since>>

\* mutation: `any` in place of `all`
any_fork(p) == \E k \in DOMAIN forks[p] : is_some(forks[p][k])

\* `self.forks.iter().all(|(_, f)| f.is_some())`
all_forks(p) == \A k \in DOMAIN forks[p] : is_some(forks[p][k])

\* eat(), first branch up to the sleep: both forks are available, "is eating"
EatBegin(p) ==
    /\ pc[p] = "eat"
    /\ all_forks(p)
    /\ pc' = [pc EXCEPT ![p] = "eating"]
    /\ meals' = [meals EXCEPT ![p] = IF counting THEN meals[p] + 1 ELSE meals[p]]
    /\ since' = note_meal(since, p)
    /\ UNCHANGED <<num_phils, setup_i, spawned, aborted, neighbours, forks, request_queue, channel, counting, injected, sem, table, waiter>>

\* eat(): after the sleep, make forks dirty, print "is done eating"; the while
\* loop is entered when the request queue is not empty, else eat() returns
EatDone(p) ==
    /\ pc[p] = "eating"
    /\ IF \E k \in DOMAIN forks[p] : ~is_some(forks[p][k])
          THEN Panic(p)
          ELSE /\ forks' = [forks EXCEPT ![p] = [k \in DOMAIN forks[p] |-> dirty(forks[p][k])]]
               /\ pc' = [pc EXCEPT ![p] = IF request_queue[p] = << >> THEN "handle" ELSE "drain"]
               /\ since' = note_done(since, p)
               /\ UNCHANGED <<request_queue, channel>>
    /\ UNCHANGED <<num_phils, setup_i, spawned, aborted, neighbours, meals, counting, injected, sem, table, waiter>>

\* eat(): one iteration of `while let Some((who, fork_id)) = request_queue.pop_front()`;
\* eat() returns after the iteration that empties the queue
Drain(p) ==
    /\ pc[p] = "drain"
    /\ request_queue[p] # << >>
    /\ LET who == Head(request_queue[p])[1]
           fork_id == Head(request_queue[p])[2]
       IN  IF fork_id \notin DOMAIN forks[p]
              THEN Panic(p)
              ELSE IF is_dirty(forks[p][fork_id])
                      THEN IF who \notin DOMAIN neighbours[p]
                              THEN Panic(p)
                              ELSE /\ forks' = [forks EXCEPT ![p][fork_id] = take(forks[p][fork_id])]
                                   /\ channel' = send(channel, p, who,
                                                      Delivery(Fork_clean(forks[p][fork_id].fork[1])))
                                   /\ request_queue' = [request_queue EXCEPT ![p] = Tail(request_queue[p])]
                                   /\ pc' = [pc EXCEPT ![p] =
                                               IF Tail(request_queue[p]) = << >> THEN "handle" ELSE "drain"]
                                   /\ since' = note_gave(since, p)
                      ELSE /\ request_queue' = [request_queue EXCEPT ![p] = Tail(request_queue[p])]
                           /\ pc' = [pc EXCEPT ![p] =
                                       IF Tail(request_queue[p]) = << >> THEN "handle" ELSE "drain"]
                           /\ UNCHANGED <<forks, channel, since>>
    /\ UNCHANGED <<num_phils, setup_i, spawned, aborted, neighbours, meals, counting, injected, sem, table, waiter>>

\* the slot eat() asks for: `.filter(|(_, f)| f.needs_requesting()).take(1)`,
\* the first in key order that needs requesting
ToRequest(p) ==
    LET need == {k \in DOMAIN forks[p] : needs_requesting(forks[p][k])}
    IN  IF need = {} THEN None ELSE Some(SetMin(need))

\* eat(), else branch: cannot eat, request the lower-numbered missing fork
EatRequest(p) ==
    /\ pc[p] = "eat"
    /\ ~all_forks(p)
    /\ IF ToRequest(p) = None
          THEN /\ pc' = [pc EXCEPT ![p] = "handle"]
               /\ UNCHANGED <<forks, channel>>
          ELSE LET fid == ToRequest(p)[1]
                   pid == IF fid = p THEN neighbour_left(p) ELSE neighbour_right(p)
               IN  /\ channel' = send(channel, p, pid, Request(p, fid))
                   /\ forks' = [forks EXCEPT ![p][fid] = requested(forks[p][fid])]
                   /\ pc' = [pc EXCEPT ![p] = "handle"]
    /\ UNCHANGED <<num_phils, setup_i, spawned, aborted, neighbours, request_queue, meals, counting, injected, since, sem, table, waiter>>

\* `request_queue.iter().any(|&x| x == (by, fork_id))`
queued(q, by, fork_id) == \E n \in 1 .. Len(q) : q[n] = <<by, fork_id>>

\* mutation: the request is pushed without looking for it in the queue
enqueue_always(q, by, fork_id) == Append(q, <<by, fork_id>>)

\* mutation: the deferred request is not pushed
enqueue_drop(q, by, fork_id) == q

\* `if !queued { request_queue.push_back((by, fork_id)) }`
enqueue(q, by, fork_id) ==
    IF queued(q, by, fork_id) THEN q ELSE Append(q, <<by, fork_id>>)

\* handle_requests(): a Request(by, fork_id) is received
HandleRequest(p) ==
    /\ pc[p] = "handle"
    /\ channel[p] # << >>
    /\ Head(channel[p]).kind = "Request"
    /\ LET by == Head(channel[p]).by
           fork_id == Head(channel[p]).fork_id
           rest == [channel EXCEPT ![p] = Tail(channel[p])]
       IN  IF fork_id \notin DOMAIN forks[p]
              THEN Panic(p)
              ELSE IF is_dirty(forks[p][fork_id])
                      THEN IF by \notin DOMAIN neighbours[p]
                              THEN Panic(p)
                              ELSE /\ forks' = [forks EXCEPT ![p][fork_id] = take(forks[p][fork_id])]
                                   /\ channel' = send(rest, p, by,
                                                      Delivery(Fork_clean(forks[p][fork_id].fork[1])))
                                   /\ pc' = [pc EXCEPT ![p] = "eat"]
                                   /\ since' = note_gave(since, p)
                                   /\ UNCHANGED request_queue
                      ELSE /\ request_queue' =
                                  [request_queue EXCEPT ![p] = enqueue(request_queue[p], by, fork_id)]
                           /\ channel' = rest
                           /\ pc' = [pc EXCEPT ![p] = "eat"]
                           /\ UNCHANGED <<forks, since>>
    /\ UNCHANGED <<num_phils, setup_i, spawned, aborted, neighbours, meals, counting, injected, sem, table, waiter>>

\* mutation: the delivered fork is put into the existing slot, whose flag stays
HandleDeliveryKeepFlag(p) ==
    /\ pc[p] = "handle"
    /\ channel[p] # << >>
    /\ Head(channel[p]).kind = "Delivery"
    /\ LET fork == Head(channel[p]).fork
       IN  forks' = [forks EXCEPT ![p][fork.id].fork = Some(fork)]
    /\ channel' = [channel EXCEPT ![p] = Tail(channel[p])]
    /\ pc' = [pc EXCEPT ![p] = "eat"]
    /\ UNCHANGED <<num_phils, setup_i, spawned, aborted, neighbours, request_queue, meals, counting, injected, since, sem, table, waiter>>

\* handle_requests(): a Delivery(fork) is received
HandleDelivery(p) ==
    /\ pc[p] = "handle"
    /\ channel[p] # << >>
    /\ Head(channel[p]).kind = "Delivery"
    /\ LET fork == Head(channel[p]).fork
       IN  forks' = [forks EXCEPT ![p] = MapInsert(forks[p], fork.id, ForkStorage_new(Some(fork)))]
    /\ channel' = [channel EXCEPT ![p] = Tail(channel[p])]
    /\ pc' = [pc EXCEPT ![p] = "eat"]
    /\ UNCHANGED <<num_phils, setup_i, spawned, aborted, neighbours, request_queue, meals, counting, injected, since, sem, table, waiter>>

Next ==
    \/ Topology
    \/ Spawn
    \/ \E p \in Phils : EatBegin(p)
    \/ \E p \in Phils : EatDone(p)
    \/ \E p \in Phils : Drain(p)
    \/ \E p \in Phils : EatRequest(p)
    \/ \E p \in Phils : HandleRequest(p)
    \/ \E p \in Phils : HandleDelivery(p)

Spec == Init /\ [][Next]_vars

\* the run of a bounded number of meals, every meal counted
InitMeals == Start(NumPhils, TRUE) /\ since = NoRecord /\ Idle

\* the counted run is over when its last meal has started
RunOver == counting /\ SumTo(meals, num_phils) >= MaxMeals

NextMeals ==
    \/ Topology
    \/ Spawn
    \/ \E p \in Phils : EatBegin(p) /\ ~RunOver
    \/ \E p \in Phils : EatDone(p) /\ ~RunOver
    \/ \E p \in Phils : Drain(p) /\ ~RunOver
    \/ \E p \in Phils : EatRequest(p) /\ ~RunOver
    \/ \E p \in Phils : HandleRequest(p) /\ ~RunOver
    \/ \E p \in Phils : HandleDelivery(p) /\ ~RunOver

SpecMeals == InitMeals /\ [][NextMeals]_vars

\* the steps of philosopher p's thread: loop { eat(); handle_requests(); }
Thread(p) ==
    \/ EatBegin(p)
    \/ EatDone(p)
    \/ Drain(p)
    \/ EatRequest(p)
    \/ HandleRequest(p)
    \/ HandleDelivery(p)

InitRing == Start(RingSize, FALSE) /\ since = NoRecord /\ Idle

\* main and every spawned thread keep being scheduled
Fairness ==
    /\ WF_vars(Topology)
    /\ WF_vars(Spawn)
    /\ \A p \in 0 .. (NumPhils - 1) : WF_vars(p \in Phils /\ Thread(p))

SpecRing == InitRing /\ [][Next]_vars /\ Fairness

\* the same ring, with the record of what happened since each philosopher's last meal
InitRecord == Start(RingSize, FALSE) /\ since = [p \in Phils |-> FreshRecord] /\ Idle

SpecRecord == InitRecord /\ [][Next]_vars

\* handle_requests() applied to any Request its channel can carry: a sender held
\* by a neighbour puts a Request for one of p's forks into p's channel, whatever
\* the neighbour's own state
AnyRequest(p) ==
    /\ spawned
    /\ injected < MaxInjected
    /\ injected' = injected + 1
    /\ \E fork_id \in DOMAIN forks[p] :
           LET by == IF fork_id = p THEN neighbour_left(p) ELSE neighbour_right(p)
           IN  channel' = [channel EXCEPT ![p] = Append(channel[p], Request(by, fork_id))]
    /\ UNCHANGED <<num_phils, setup_i, spawned, aborted, neighbours, forks, request_queue, pc, meals, counting, since, sem, table, waiter>>

NextAny ==
    \/ Next
    \/ \E p \in Phils : AnyRequest(p)

InitAny == Start(SmallRing, FALSE) /\ since = NoRecord /\ Idle

SpecAny == InitAny /\ [][NextAny]_vars

\* setup_fork(neighbour, fork) applied to any philosopher with any fork id, while
\* main still owns the philosophers: the assert! decides between insert and abort
AnySetupFork(p) ==
    /\ ~aborted
    /\ ~spawned
    /\ injected < MaxInjected
    /\ injected' = injected + 1
    /\ \E neighbour \in Phils : \E fork \in {None, Some(new_dirty(neighbour))} :
           IF setup_fork_assert(forks, p)
              THEN /\ forks' = setup_fork(forks, p, neighbour, fork)
                   /\ aborted' = FALSE
              ELSE /\ forks' = forks
                   /\ aborted' = TRUE
    /\ UNCHANGED <<num_phils, setup_i, spawned, neighbours, request_queue, channel, pc, meals, counting, since, sem, table, waiter>>

NextSetup ==
    \/ Next
    \/ \E p \in Phils : AnySetupFork(p)

InitSetup == Start(SmallRing, FALSE) /\ since = NoRecord /\ Idle

SpecSetup == InitSetup /\ [][NextSetup]_vars

----------------------------------------------------------------------------
\* examples/n_minus_one.rs: five fork mutexes, a semaphore of capacity N - 1

\* the state of chandy_misra.rs is not used by the other two programs
chandy == <<setup_i, spawned, aborted, neighbours, forks, request_queue, channel, counting, injected, since>>

NoChandy ==
    /\ setup_i = 0
    /\ spawned = FALSE
    /\ aborted = FALSE
    /\ neighbours = << >>
    /\ forks = << >>
    /\ request_queue = << >>
    /\ channel = << >>
    /\ counting = TRUE
    /\ injected = 0
    /\ since = NoRecord

\* Philosopher::new(name, left, right) of main's list: (0,1), (1,2), (2,3), (3,4), (4,0)
left_of(p) == p

right_of(p) == (p + 1) % num_phils

\* `let n_minus_one = philosophers.len() - 1`
n_minus_one == num_phils - 1

\* main up to the spawn of the threads: every mutex is free, no guard exists
InitNMinusOne ==
    /\ num_phils = NumPhils
    /\ pc = [p \in Phils |-> "spin"]
    /\ meals = [p \in Phils |-> 0]
    /\ sem = 0
    /\ table = [f \in Phils |-> None]
    /\ waiter = << >>
    /\ NoChandy

\* `sem.try_access()`: Ok(guard) while fewer than n_minus_one guards are alive,
\* else Err and the loop spins
TryAccess(p) ==
    /\ pc[p] = "spin"
    /\ IF sem < n_minus_one
          THEN /\ sem' = sem + 1
               /\ pc' = [pc EXCEPT ![p] = "guard"]
          ELSE UNCHANGED <<sem, pc>>
    /\ UNCHANGED <<num_phils, meals, table, waiter>>
    /\ UNCHANGED chandy

\* `.is_ok()` has been evaluated: the guard is a temporary of the `if` condition
\* and is dropped at the end of the condition, before the block `p.eat(&table)`
GuardDrop(p) ==
    /\ pc[p] = "guard"
    /\ sem' = sem - 1
    /\ pc' = [pc EXCEPT ![p] = "lock_left"]
    /\ UNCHANGED <<num_phils, meals, table, waiter>>
    /\ UNCHANGED chandy

\* eat(): `let _left = table.forks[self.left].lock().unwrap()`
LockLeft(p) ==
    /\ pc[p] = "lock_left"
    /\ table[left_of(p)] = None
    /\ table' = [table EXCEPT ![left_of(p)] = Some(p)]
    /\ pc' = [pc EXCEPT ![p] = "lock_right"]
    /\ UNCHANGED <<num_phils, meals, sem, waiter>>
    /\ UNCHANGED chandy

\* eat(): `let _right = table.forks[self.right].lock().unwrap()`, then "is eating"
LockRight(p) ==
    /\ pc[p] = "lock_right"
    /\ table[right_of(p)] = None
    /\ table' = [table EXCEPT ![right_of(p)] = Some(p)]
    /\ pc' = [pc EXCEPT ![p] = "eating"]
    /\ meals' = [meals EXCEPT ![p] = meals[p] + 1]
    /\ UNCHANGED <<num_phils, sem, waiter>>
    /\ UNCHANGED chandy

\* eat() returns after "is done eating": _right is dropped first
DropRight(p) ==
    /\ pc[p] = "eating"
    /\ table' = [table EXCEPT ![right_of(p)] = None]
    /\ pc' = [pc EXCEPT ![p] = "drop_left"]
    /\ UNCHANGED <<num_phils, meals, sem, waiter>>
    /\ UNCHANGED chandy

\* then _left is dropped, and `break` ends the thread
DropLeft(p) ==
    /\ pc[p] = "drop_left"
    /\ table' = [table EXCEPT ![left_of(p)] = None]
    /\ pc' = [pc EXCEPT ![p] = "done"]
    /\ UNCHANGED <<num_phils, meals, sem, waiter>>
    /\ UNCHANGED chandy

NextNMinusOne ==
    \/ \E p \in Phils : TryAccess(p)
    \/ \E p \in Phils : GuardDrop(p)
    \/ \E p \in Phils : LockLeft(p)
    \/ \E p \in Phils : LockRight(p)
    \/ \E p \in Phils : DropRight(p)
    \/ \E p \in Phils : DropLeft(p)

SpecNMinusOne == InitNMinusOne /\ [][NextNMinusOne]_vars

----------------------------------------------------------------------------
\* examples/arbitrator.rs: the forks are flags handed out by a waiter behind one mutex;
\* main's philosophers have the same left and right forks as in n_minus_one.rs

\* the closure reserve_fork of take_fork
reserve_fork(w, fork) ==
    IF ~w[fork]
       THEN [forks |-> [w EXCEPT ![fork] = TRUE], ok |-> TRUE]
       ELSE [forks |-> w, ok |-> FALSE]

\* mutation: a left-hand fork is handed out like a right-hand one
take_fork_any(w, which, fork) == reserve_fork(w, fork)

\* Table::take_fork under the waiter's mutex: the forks after the call and its result
take_fork(w, which, fork) ==
    LET forks_available == Cardinality({x \in DOMAIN w : ~w[x]})
    IN  IF which = "Right"
           THEN reserve_fork(w, fork)
           ELSE IF forks_available > 1
                   THEN reserve_fork(w, fork)
                   ELSE [forks |-> w, ok |-> FALSE]

\* Table::return_fork
return_fork(w, fork) == [w EXCEPT ![fork] = FALSE]

\* main up to the spawn of the threads: every fork is free
InitArbitrator ==
    /\ num_phils = NumPhils
    /\ pc = [p \in Phils |-> "ask_left"]
    /\ meals = [p \in Phils |-> 0]
    /\ waiter = [f \in Phils |-> FALSE]
    /\ sem = 0
    /\ table = << >>
    /\ NoChandy

\* eat(): `if table.take_fork(Fork::Left(self.left))` in the loop 'eat
AskLeft(p) ==
    /\ pc[p] = "ask_left"
    /\ LET r == take_fork(waiter, "Left", left_of(p))
       IN  /\ waiter' = r.forks
           /\ pc' = [pc EXCEPT ![p] = IF r.ok THEN "ask_right" ELSE "ask_left"]
    /\ UNCHANGED <<num_phils, meals, sem, table>>
    /\ UNCHANGED chandy

\* eat(): `if table.take_fork(Fork::Right(self.right))` in the inner loop, then "is eating"
AskRight(p) ==
    /\ pc[p] = "ask_right"
    /\ LET r == take_fork(waiter, "Right", right_of(p))
       IN  /\ waiter' = r.forks
           /\ pc' = [pc EXCEPT ![p] = IF r.ok THEN "eating" ELSE "ask_right"]
           /\ meals' = [meals EXCEPT ![p] = IF r.ok THEN meals[p] + 1 ELSE meals[p]]
    /\ UNCHANGED <<num_phils, sem, table>>
    /\ UNCHANGED chandy

\* eat(): "is done eating", `table.return_fork(self.left)`
ReturnLeft(p) ==
    /\ pc[p] = "eating"
    /\ waiter' = return_fork(waiter, left_of(p))
    /\ pc' = [pc EXCEPT ![p] = "return_right"]
    /\ UNCHANGED <<num_phils, meals, sem, table>>
    /\ UNCHANGED chandy

\* eat(): `table.return_fork(self.right)`, `break 'eat`: the thread ends
ReturnRight(p) ==
    /\ pc[p] = "return_right"
    /\ waiter' = return_fork(waiter, right_of(p))
    /\ pc' = [pc EXCEPT ![p] = "done"]
    /\ UNCHANGED <<num_phils, meals, sem, table>>
    /\ UNCHANGED chandy

NextArbitrator ==
    \/ \E p \in Phils : AskLeft(p)
    \/ \E p \in Phils : AskRight(p)
    \/ \E p \in Phils : ReturnLeft(p)
    \/ \E p \in Phils : ReturnRight(p)

\* the steps of the thread of philosopher p
Diner(p) == AskLeft(p) \/ AskRight(p) \/ ReturnLeft(p) \/ ReturnRight(p)

\* every spawned thread keeps being scheduled
FairDiners == \A p \in 0 .. (NumPhils - 1) : WF_vars(Diner(p))

SpecArbitrator == InitArbitrator /\ [][NextArbitrator]_vars /\ FairDiners

----------------------------------------------------------------------------
\* Properties

\* the topology loop is over: the ring exists
Built == setup_i = num_phils /\ ~aborted

\* the slots <<p, k>> that hold the fork with id f
SlotsOf(f) ==
    {s \in UNION {{<<p, k>> : k \in DOMAIN forks[p]} : p \in Phils} :
        /\ is_some(forks[s[1]][s[2]])
        /\ forks[s[1]][s[2]].fork[1].id = f}

\* the positions <<p, n>> of the Delivery messages in transit that carry the fork with id f
TransitOf(f) ==
    {m \in UNION {{<<p, n>> : n \in 1 .. Len(channel[p])} : p \in Phils} :
        /\ channel[m[1]][m[2]].kind = "Delivery"
        /\ channel[m[1]][m[2]].fork.id = f}

\* every fork held in a slot or carried by a Delivery, whatever its id
ForksInSlots ==
    {s \in UNION {{<<p, k>> : k \in DOMAIN forks[p]} : p \in Phils} :
        is_some(forks[s[1]][s[2]])}

ForksInTransit ==
    {m \in UNION {{<<p, n>> : n \in 1 .. Len(channel[p])} : p \in Phils} :
        channel[m[1]][m[2]].kind = "Delivery"}

\* C1: once the ring is built there are exactly num_phils forks, and each fork
\* id 0 .. num_phils-1 is in exactly one slot or in exactly one Delivery in
\* transit, never both and never neither.
Conservation ==
    Built =>
        /\ Cardinality(ForksInSlots) + Cardinality(ForksInTransit) = num_phils
        /\ \A f \in Phils : Cardinality(SlotsOf(f)) + Cardinality(TransitOf(f)) = 1

\* a fork is in transit while the philosopher that started with no fork holds both of its forks
ConservationWitness ==
    /\ Built
    /\ ForksInTransit # {}
    /\ all_forks(num_phils - 1)

\* the fork ids philosopher p holds
Holds(p) ==
    {forks[p][k].fork[1].id : k \in {x \in DOMAIN forks[p] : is_some(forks[p][x])}}

Eating(p) == pc[p] = "eating"

\* C2: no fork id is held by two philosophers that are both eating, and two
\* ring-adjacent philosophers are never eating at the same time.
MutualExclusion ==
    /\ \A p, q \in Phils : (p # q /\ Eating(p) /\ Eating(q)) => Holds(p) \cap Holds(q) = {}
    /\ \A p \in Phils : ~(Eating(p) /\ Eating((p + 1) % num_phils))

\* two philosophers are eating at the same time, each holding two forks
MutualExclusionWitness ==
    \E p, q \in Phils :
        /\ p # q
        /\ Eating(p) /\ Eating(q)
        /\ Cardinality(Holds(p)) = 2 /\ Cardinality(Holds(q)) = 2

\* C5: every Delivery message in a channel carries a clean fork.
DeliveriesClean ==
    \A p \in Phils : \A n \in 1 .. Len(channel[p]) :
        channel[p][n].kind = "Delivery" => channel[p][n].fork.state = "Clean"

\* two Deliveries are in transit, one from each send site: p has left the drain
\* loop (thread at handle_requests, the slot empty and not yet requested again),
\* q has just answered a Request (thread back at eat)
DeliveriesCleanWitness ==
    \E p, q \in Phils :
        /\ pc[p] = "handle" /\ pc[q] = "eat"
        /\ \E k \in DOMAIN forks[p] :
               ~is_some(forks[p][k]) /\ ~forks[p][k].requested /\ TransitOf(k) # {}
        /\ \E k \in DOMAIN forks[q] :
               ~is_some(forks[q][k]) /\ ~forks[q][k].requested /\ TransitOf(k) # {}

\* C10: when the topology loop is over and no thread runs yet, philosopher i has
\* the two slots i and (i+1) mod N, every fork is dirty, fork i is in the slot of
\* the lower-numbered of its endpoints (i-1 mod N and i), philosopher 0 holds
\* forks 0 and 1, philosophers 1..N-2 hold one fork, philosopher N-1 none, no
\* requested flag is set, and all channels and queues are empty.
InitialAssignment ==
    (Built /\ ~spawned) =>
        \A i \in Phils :
            LET left == (i + num_phils - 1) % num_phils
                lower == IF left < i THEN left ELSE i
            IN  /\ DOMAIN forks[i] = {i, (i + 1) % num_phils}
                /\ SlotsOf(i) = {<<lower, i>>}
                /\ forks[lower][i].fork[1].state = "Dirty"
                /\ \A k \in DOMAIN forks[i] : ~forks[i][k].requested
                /\ Holds(i) = IF i = 0 THEN {0, 1}
                              ELSE IF i = num_phils - 1 THEN {}
                              ELSE {i + 1}
                /\ channel[i] = << >>
                /\ request_queue[i] = << >>
                /\ DOMAIN neighbours[i] = {left, (i + 1) % num_phils}

\* the topology loop has just ended
InitialAssignmentWitness ==
    /\ Built
    /\ ~spawned
    /\ Cardinality(ForksInSlots) = num_phils

\* C6: when a philosopher finishes eating both forks in its slots are dirty;
\* finishing a meal is the only step that turns a fork in a slot from clean to
\* dirty; a fork in a slot never turns from dirty to clean; and once the threads
\* run a fork enters a slot only by a received Delivery, clean.
DirtyMarking ==
    [][\A p \in Phils :
          /\ (pc[p] = "eating" /\ pc'[p] \in {"drain", "handle"}) =>
                 \A k \in DOMAIN forks'[p] : is_dirty(forks'[p][k])
          /\ \A k \in (DOMAIN forks[p]) \cap (DOMAIN forks'[p]) :
                 /\ (is_some(forks[p][k]) /\ ~is_dirty(forks[p][k]) /\ is_dirty(forks'[p][k]))
                        => (pc[p] = "eating" /\ pc'[p] # "eating")
                 /\ (is_dirty(forks[p][k]) /\ is_some(forks'[p][k])) => is_dirty(forks'[p][k])
                 /\ (spawned /\ ~is_some(forks[p][k]) /\ is_some(forks'[p][k]))
                        => /\ ~is_dirty(forks'[p][k])
                           /\ pc[p] = "handle"
                           /\ Head(channel[p]) = Delivery(forks'[p][k].fork[1])
      ]_vars

\* a philosopher has just finished a meal it ate with a fork that arrived by
\* Delivery (it started with none): both its forks are dirty and no deferred
\* request has been served yet, while another philosopher holds a clean fork
DirtyMarkingWitness ==
    /\ Built
    /\ pc[num_phils - 1] = "drain"
    /\ \A k \in DOMAIN forks[num_phils - 1] : is_dirty(forks[num_phils - 1][k])
    /\ \E q \in Phils : \E k \in DOMAIN forks[q] :
           is_some(forks[q][k]) /\ ~is_dirty(forks[q][k])

\* C8: no slot has both a fork and its requested flag set; the flag is set only
\* on an empty slot, and it is cleared only by storing a delivered fork.
SlotInvariant ==
    [][\A p \in Phils : \A k \in DOMAIN forks'[p] :
          /\ ~(is_some(forks'[p][k]) /\ forks'[p][k].requested)
          /\ k \in DOMAIN forks[p] =>
                 /\ (~forks[p][k].requested /\ forks'[p][k].requested)
                        => (~is_some(forks[p][k]) /\ ~is_some(forks'[p][k]))
                 /\ (forks[p][k].requested /\ ~forks'[p][k].requested)
                        => /\ is_some(forks'[p][k])
                           /\ pc[p] = "handle"
                           /\ Head(channel[p]) = Delivery(forks'[p][k].fork[1])
      ]_vars

\* a philosopher waits for a requested fork in one slot and holds, in the other,
\* a fork that was delivered to it after it had requested it
SlotInvariantWitness ==
    \E p \in Phils : \E k, j \in DOMAIN forks[p] :
        /\ ~is_some(forks[p][k]) /\ forks[p][k].requested
        /\ is_some(forks[p][j]) /\ ~is_dirty(forks[p][j]) /\ ~forks[p][j].requested

NoDuplicate(q) == \A m, n \in 1 .. Len(q) : q[m] = q[n] => m = n

\* C7: no request_queue ever holds the same (requester, fork id) pair twice, and
\* receiving a Request whose pair is already queued leaves the queue unchanged.
QueueIdempotent ==
    [][\A p \in Phils :
          /\ NoDuplicate(request_queue'[p])
          /\ ( /\ pc[p] = "handle" /\ pc'[p] = "eat"
               /\ channel[p] # << >>
               /\ Head(channel[p]).kind = "Request"
               /\ queued(request_queue[p], Head(channel[p]).by, Head(channel[p]).fork_id) )
             => request_queue'[p] = request_queue[p]
      ]_vars

\* a philosopher is about to receive a Request whose pair its queue already holds,
\* its fork being clean, so that the Request is deferred again
QueueIdempotentWitness ==
    \E p \in Phils :
        /\ pc[p] = "handle"
        /\ channel[p] # << >>
        /\ Head(channel[p]).kind = "Request"
        /\ queued(request_queue[p], Head(channel[p]).by, Head(channel[p]).fork_id)
        /\ is_some(forks[p][Head(channel[p]).fork_id])
        /\ ~is_dirty(forks[p][Head(channel[p]).fork_id])

\* every thread is blocked in recv() on an empty channel
AllBlocked ==
    /\ spawned
    /\ \A p \in Phils : pc[p] = "handle" /\ channel[p] = << >>

\* C3: no reachable state has every philosopher blocked in receive on an empty
\* channel, and under weak fairness of every thread some philosopher always
\* eventually starts eating.
DeadlockFree == [](~AllBlocked) /\ []<>(\E p \in Phils : Eating(p))

\* the philosopher that started with no fork is eating
DeadlockFreeWitness ==
    /\ Built
    /\ Eating(num_phils - 1)
    /\ \E p \in Phils : pc[p] = "handle" /\ channel[p] = << >>

\* C4: under weak fairness of every thread, every philosopher eats infinitely often.
StarvationFree == \A p \in 0 .. (RingSize - 1) : []<>Eating(p)

\* a philosopher has deferred a Request while it waits for its own second fork:
\* the requester stays hungry until that philosopher has eaten
StarvationFreeWitness ==
    \E p \in Phils :
        /\ request_queue[p] # << >>
        /\ pc[p] = "handle"
        /\ ~all_forks(p)

\* C9, as claimed: in no reachable state of the 5-ring has one philosopher
\* started a third meal while another philosopher has eaten no meal.
BoundedUnfairness ==
    \A a, b \in Phils : ~(meals[a] >= 3 /\ meals[b] = 0)

\* C9, amended: in no reachable state of the 5-ring has one philosopher started
\* a third meal while neither of its two ring neighbours has started a meal.
NeighbourBoundedUnfairness ==
    \A a \in Phils :
        meals[a] >= 3 =>
            \/ meals[(a + 1) % num_phils] >= 1
            \/ meals[(a + num_phils - 1) % num_phils] >= 1

\* a philosopher has started its third meal while one of its neighbours and
\* both philosophers that are not its neighbours have eaten nothing
NeighbourBoundedUnfairnessWitness ==
    \E a \in Phils :
        /\ meals[a] = 3
        /\ Eating(a)
        /\ Cardinality({b \in Phils : meals[b] = 0}) = num_phils - 2

\* no philosopher starts a second meal before one of its ring neighbours has started a meal
SecondMealAfterNeighbour ==
    \A a \in Phils :
        meals[a] >= 2 =>
            \/ meals[(a + 1) % num_phils] >= 1
            \/ meals[(a + num_phils - 1) % num_phils] >= 1

\* C11: setup_fork never gives a philosopher a third slot: no philosopher ever
\* has more than two slots, and a setup_fork call for a fork id that is not among
\* the two the philosopher has aborts the process and adds nothing.
ThirdForkRejected ==
    [][\A p \in Phils :
          /\ Cardinality(DOMAIN forks'[p]) <= 2
          /\ (Cardinality(DOMAIN forks[p]) = 2 /\ DOMAIN forks'[p] # DOMAIN forks[p])
                 => (aborted' /\ forks' = forks)
      ]_vars

\* C13: a clean fork is never surrendered: a clean fork in a slot is still in that
\* slot after every step (it leaves the slot only once the holder's meal has made
\* it dirty), and a Request for a fork that is clean in the receiver's slot leaves
\* the receiver's slots unchanged, sends nothing and only enqueues the request.
CleanKept ==
    [][\A p \in Phils : \A k \in DOMAIN forks[p] :
          (forks[p][k].fork # None /\ forks[p][k].fork[1].state = "Clean") =>
              /\ forks'[p][k].fork # None
              /\ forks'[p][k].fork[1].id = forks[p][k].fork[1].id
              /\ forks'[p][k].fork[1].state = "Dirty" => (pc[p] = "eating" /\ pc'[p] # "eating")
              /\ ( /\ pc[p] = "handle" /\ pc'[p] # "handle"
                   /\ channel[p] # << >>
                   /\ Head(channel[p]).kind = "Request"
                   /\ Head(channel[p]).fork_id = k )
                  => /\ forks'[p] = forks[p]
                     /\ request_queue'[p] =
                            Append(request_queue[p], <<Head(channel[p]).by, k>>)
                     /\ \A q \in Phils \ {p} : channel'[q] = channel[q]
      ]_vars

\* a philosopher holds a clean fork for which it has deferred a neighbour's Request
CleanKeptWitness ==
    \E p \in Phils : \E k \in DOMAIN forks[p] :
        /\ forks[p][k].fork # None
        /\ forks[p][k].fork[1].state = "Clean"
        /\ \E n \in 1 .. Len(request_queue[p]) : request_queue[p][n][2] = k

\* the positions of the Request messages in the channels, all of them and those for fork f
AllRequests ==
    {m \in UNION {{<<p, n>> : n \in 1 .. Len(channel[p])} : p \in Phils} :
        channel[m[1]][m[2]].kind = "Request"}

RequestsFor(f) == {m \in AllRequests : channel[m[1]][m[2]].fork_id = f}

\* the positions of the deferred-queue entries for fork f
DeferredFor(f) ==
    {m \in UNION {{<<p, n>> : n \in 1 .. Len(request_queue[p])} : p \in Phils} :
        request_queue[m[1]][m[2]][2] = f}

Pending(f) == Cardinality(RequestsFor(f)) + Cardinality(DeferredFor(f))

\* C14: for every fork at most one request is pending (Requests in the channels
\* plus deferred entries); a Request for a fork is sent only while none is pending
\* for it, the fork is not on its way to the sender and the sender's slot is not
\* marked, and it marks the slot; an attempt to eat sends at most one Request, for the
\* lowest-numbered of the sender's slots that are empty and not marked.
OneRequestPending ==
    [][/\ \A f \in Phils : Pending(f)' <= 1
       /\ \A p \in Phils :
              (pc[p] = "eat" /\ pc'[p] = "handle") =>
                  /\ Cardinality(AllRequests)' <= Cardinality(AllRequests) + 1
                  /\ \A k \in DOMAIN forks[p] :
                         Cardinality(RequestsFor(k))' > Cardinality(RequestsFor(k)) =>
                             /\ forks[p][k].fork = None
                             /\ ~forks[p][k].requested
                             /\ forks'[p][k].requested
                             /\ \A j \in DOMAIN forks[p] :
                                    (forks[p][j].fork = None /\ ~forks[p][j].requested) => k <= j
                             /\ Pending(k) = 0
                             /\ \A m \in TransitOf(k) : m[1] # p
                             /\ \E q \in Phils \ {p} :
                                    /\ channel'[q] = Append(channel[q], Request(p, k))
                                    /\ k \in DOMAIN forks[q]
      ]_vars

\* a philosopher that lacks both forks has asked for the lower-numbered one only,
\* and that request is pending
OneRequestPendingWitness ==
    \E p \in Phils : \E k, j \in DOMAIN forks[p] :
        /\ k < j
        /\ forks[p][k].fork = None /\ forks[p][k].requested
        /\ forks[p][j].fork = None /\ ~forks[p][j].requested
        /\ Pending(k) = 1
        /\ Pending(j) = 0

\* the two philosophers that share fork f: f itself and its left neighbour
Endpoints(f) == {f, (f + num_phils - 1) % num_phils}

\* the philosopher that has priority for fork f: the holder of a clean fork, the
\* other endpoint of a dirty fork, the destination of a fork in transit
Prior(f) ==
    LET holders == {h \in Endpoints(f) : forks[h][f].fork # None}
        h == CHOOSE x \in holders : TRUE
    IN  IF holders = {}
           THEN CHOOSE q \in Endpoints(f) :
                    \E n \in 1 .. Len(channel[q]) : channel[q][n] = Delivery([id |-> f, state |-> "Clean"])
           ELSE IF forks[h][f].fork[1].state = "Clean"
                   THEN h
                   ELSE CHOOSE q \in Endpoints(f) : q # h

\* the precedence relation: <<a, b>> when a has priority over b for the fork they share
Precedence ==
    {LET a == Prior(f) IN <<a, CHOOSE q \in Endpoints(f) : q # a>> : f \in Phils}

\* R with the pairs joined by paths of up to n + 1 of its pairs
RECURSIVE Paths(_, _)
Paths(R, n) ==
    IF n = 0
       THEN R
       ELSE LET C == Paths(R, n - 1)
            IN  C \cup {<<z[1][1], z[2][2]>> : z \in {y \in C \X R : y[1][2] = y[2][1]}}

\* C15: once the ring is built the precedence relation has no cycle, and the
\* philosophers never all hold exactly one clean fork while lacking the other.
AcyclicPriority ==
    Built =>
        /\ LET closure == Paths(Precedence, num_phils)
           IN  \A p \in Phils : <<p, p>> \notin closure
        /\ ~ \A p \in Phils :
                 \E k, j \in DOMAIN forks[p] :
                     /\ forks[p][k].fork # None
                     /\ forks[p][k].fork[1].state = "Clean"
                     /\ forks[p][j].fork = None

\* all philosophers but one hold exactly one clean fork and lack the other,
\* while a fork is in transit
AcyclicPriorityWitness ==
    /\ Built
    /\ ForksInTransit # {}
    /\ Cardinality({p \in Phils :
            \E k, j \in DOMAIN forks[p] :
                /\ forks[p][k].fork # None
                /\ forks[p][k].fork[1].state = "Clean"
                /\ forks[p][j].fork = None}) = num_phils - 1

\* C16: every deferred request is served: each entry popped by the loop at the
\* end of a meal finds its fork dirty in the philosopher's slot, the fork leaves
\* the slot and is sent clean to the requester, and when the philosopher leaves
\* eat() after a meal its queue is empty.
DeferredServed ==
    [][\A p \in Phils :
          /\ (pc[p] = "drain" /\ <<pc'[p], request_queue'[p]>> # <<pc[p], request_queue[p]>>) =>
                 LET who == Head(request_queue[p])[1]
                     fork_id == Head(request_queue[p])[2]
                 IN  /\ fork_id \in DOMAIN forks[p]
                     /\ forks[p][fork_id].fork = Some([id |-> fork_id, state |-> "Dirty"])
                     /\ forks'[p][fork_id].fork = None
                     /\ who \in Endpoints(fork_id) \ {p}
                     /\ channel'[who] =
                            Append(channel[who], Delivery([id |-> fork_id, state |-> "Clean"]))
                     /\ request_queue'[p] = Tail(request_queue[p])
          /\ (pc[p] \in {"eating", "drain"} /\ pc'[p] \in {"handle", "eat"}) =>
                 request_queue'[p] = << >>
      ]_vars

\* a philosopher has finished a meal and served a deferred request: it is back in
\* handle_requests with an empty queue, one slot empty and not marked, its other
\* fork dirty, and the fork it gave away is in transit
DeferredServedWitness ==
    \E p \in Phils : \E k, j \in DOMAIN forks[p] :
        /\ pc[p] = "handle"
        /\ request_queue[p] = << >>
        /\ forks[p][k].fork = None /\ ~forks[p][k].requested
        /\ forks[p][j].fork # None /\ forks[p][j].fork[1].state = "Dirty"
        /\ TransitOf(k) # {}

\* C17: whenever a philosopher is about to process a Request(by, f), f is one of
\* its two slot keys, fork f is in that slot, and `by` is the other endpoint of
\* fork f and a key of its neighbours map.
RequestsReachHolder ==
    \A p \in Phils :
        (pc[p] = "handle" /\ channel[p] # << >> /\ Head(channel[p]).kind = "Request") =>
            LET by == Head(channel[p]).by
                f == Head(channel[p]).fork_id
            IN  /\ f \in DOMAIN forks[p]
                /\ Cardinality(DOMAIN forks[p]) = 2
                /\ forks[p][f].fork # None
                /\ forks[p][f].fork[1].id = f
                /\ Endpoints(f) = {p, by}
                /\ by # p
                /\ by \in DOMAIN neighbours[p]

\* a philosopher is about to process a Request for a fork that was delivered to
\* it and is still clean (it is asked for again), while it lacks its other fork
RequestsReachHolderWitness ==
    \E p \in Phils : \E j \in DOMAIN forks[p] :
        /\ pc[p] = "handle"
        /\ channel[p] # << >>
        /\ Head(channel[p]).kind = "Request"
        /\ forks[p][Head(channel[p]).fork_id].fork # None
        /\ forks[p][Head(channel[p]).fork_id].fork[1].state = "Clean"
        /\ forks[p][j].fork = None

\* C18: between two consecutive meals of a philosopher, that philosopher sends
\* away at least one fork and at least one of its two ring neighbours finishes a
\* meal: a philosopher that has eaten before starts a meal only when both are
\* recorded since its last meal began.
NoSecondHelping ==
    [][\A p \in Phils :
          (pc[p] = "eat" /\ pc'[p] = "eating" /\ since[p].ate) =>
              (since[p].gave /\ since[p].nb)
      ]_vars

\* a philosopher that has eaten before is about to eat again: it holds both forks,
\* one of them still dirty from its last meal, the other received clean
NoSecondHelpingWitness ==
    \E p \in Phils : \E k, j \in DOMAIN forks[p] :
        /\ pc[p] = "eat"
        /\ since[p].ate
        /\ forks[p][k].fork # None /\ forks[p][k].fork[1].state = "Dirty"
        /\ forks[p][j].fork # None /\ forks[p][j].fork[1].state = "Clean"

\* the philosopher's thread is inside eat() of n_minus_one.rs
InEat(p) == pc[p] \in {"lock_left", "lock_right", "eating", "drop_left"}

\* C12: in n_minus_one.rs at most N - 1 philosophers are inside eat() at the same
\* time, each of them holding a semaphore permit while it is there.
AdmissionControl ==
    /\ Cardinality({p \in Phils : InEat(p)}) <= n_minus_one
    /\ Cardinality({p \in Phils : InEat(p)}) <= sem

\* every philosopher holds its left fork mutex and waits for its right one
CircularWait ==
    \A p \in Phils : pc[p] = "lock_right" /\ table[left_of(p)] = Some(p)

\* C19: n_minus_one.rs never deadlocks: no reachable state has every philosopher
\* holding its left fork mutex while waiting for its right one, and no
\* philosopher eats more than once.
NMinusOneNoDeadlock ==
    /\ ~CircularWait
    /\ \A p \in Phils : meals[p] <= 1

\* the free forks of the waiter
FreeForks == {f \in DOMAIN waiter : ~waiter[f]}

\* the program is over: every thread has ended
AllDone == \A p \in Phils : pc[p] = "done"

\* C20: arbitrator.rs never deadlocks and terminates: a left-hand fork is granted
\* only when it is free and more than one fork is free, a right-hand fork
\* whenever it is free; under weak fairness of every thread a philosopher holding
\* its left fork eventually eats, no philosopher eats twice, and the program
\* ends with every philosopher having eaten once and every fork free.
ArbitratorTerminates ==
    /\ [][\A p \in Phils :
             /\ (pc[p] = "ask_left" /\ pc'[p] = "ask_right") =>
                    /\ left_of(p) \in FreeForks
                    /\ Cardinality(FreeForks) > 1
                    /\ waiter' = [waiter EXCEPT ![left_of(p)] = TRUE]
             /\ (pc[p] = "ask_right" /\ right_of(p) \in FreeForks /\ pc'[p] # pc[p]) =>
                    /\ pc'[p] = "eating"
                    /\ waiter' = [waiter EXCEPT ![right_of(p)] = TRUE]
             /\ (pc[p] = "ask_right" /\ pc'[p] = "eating") => right_of(p) \in FreeForks
             /\ meals'[p] <= 1
        ]_vars
    /\ \A p \in 0 .. (NumPhils - 1) : (pc[p] = "ask_right") ~> (pc[p] = "eating")
    /\ <>[](AllDone /\ FreeForks = Phils /\ \A p \in Phils : meals[p] = 1)

\* four philosophers hold their left forks: the last philosopher is refused its
\* left fork although that fork is free
ArbitratorTerminatesWitness ==
    /\ DOMAIN waiter = Phils
    /\ Cardinality(FreeForks) = 1
    /\ \E p \in Phils :
           /\ pc[p] = "ask_left"
           /\ left_of(p) \in FreeForks
           /\ \A q \in Phils \ {p} : pc[q] = "ask_right"

====
